---- MODULE Spec2Model ----
(***************************************************************************)
(* Model of scpdocgen.py: a JSON document record is rendered into an HTML *)
(* page (build_html) and written to a file (main).                         *)
(*                                                                         *)
(* Python strings are sequences of one-character strings.  A JSON value is *)
(* a record [t, s, n, items]: t is its type ("absent" stands for a missing *)
(* key), s the characters of a string, n the value of a number or boolean, *)
(* items the entries of a list.  The output text is a sequence of tokens:  *)
(* [k |-> "lit"] is a piece of the template's own markup, [k |-> "val"] is *)
(* one character (or one character reference) of an interpolated value.    *)
(***************************************************************************)
EXTENDS Integers, Sequences, FiniteSets, TLC

VARIABLES argc, infile, input, pc, data, html, outfile, stdout, stderr, status

vars == <<argc, infile, input, pc, data, html, outfile, stdout, stderr, status>>

----------------------------------------------------------------------------
(* Bounds of the explored inputs *)

MaxLen == 2
MaxUrlLen == 3
MaxBody == 3
MaxUpper == 4

----------------------------------------------------------------------------
(* JSON values *)

Absent == [t |-> "absent", s |-> <<>>, n |-> 0, items |-> <<>>]
Null == [t |-> "null", s |-> <<>>, n |-> 0, items |-> <<>>]
Str(s) == [t |-> "str", s |-> s, n |-> 0, items |-> <<>>]
Num(n) == [t |-> "num", s |-> <<>>, n |-> n, items |-> <<>>]
Bool(n) == [t |-> "bool", s |-> <<>>, n |-> n, items |-> <<>>]
List(items) == [t |-> "list", s |-> <<>>, n |-> 0, items |-> items]
EmptyDict == [t |-> "dict", s |-> <<>>, n |-> 0, items |-> <<>>]

(* entries of a list: the same values without the items field *)
AStr(s) == [t |-> "str", s |-> s, n |-> 0]
ANum(n) == [t |-> "num", s |-> <<>>, n |-> n]
ANull == [t |-> "null", s |-> <<>>, n |-> 0]

----------------------------------------------------------------------------
(* Python string operations *)

RECURSIVE Concat(_)
Concat(ss) == IF ss = <<>> THEN <<>> ELSE Head(ss) \o Concat(Tail(ss))

UpperChars == <<"A", "B", "C", "D", "E", "F", "G", "H", "I", "J", "K", "L", "M",
                "N", "O", "P", "Q", "R", "S", "T", "U", "V", "W", "X", "Y", "Z">>
LowerChars == <<"a", "b", "c", "d", "e", "f", "g", "h", "i", "j", "k", "l", "m",
                "n", "o", "p", "q", "r", "s", "t", "u", "v", "w", "x", "y", "z">>

LowerChar(c) ==
    IF \E i \in 1..26 : UpperChars[i] = c
    THEN LowerChars[CHOOSE i \in 1..26 : UpperChars[i] = c]
    ELSE c

UpperChar(c) ==
    IF \E i \in 1..26 : LowerChars[i] = c
    THEN UpperChars[CHOOSE i \in 1..26 : LowerChars[i] = c]
    ELSE c

(* str.lower() *)
Lower(s) == [i \in 1..Len(s) |-> LowerChar(s[i])]

Whitespace == {" ", "\t", "\n"}

RECURSIVE LStrip(_)
LStrip(s) == IF s # <<>> /\ Head(s) \in Whitespace THEN LStrip(Tail(s)) ELSE s

RECURSIVE RStrip(_)
RStrip(s) ==
    IF s # <<>> /\ s[Len(s)] \in Whitespace
    THEN RStrip(SubSeq(s, 1, Len(s) - 1))
    ELSE s

(* str.strip() *)
Strip(s) == RStrip(LStrip(s))

DigitChars == <<"0", "1", "2", "3", "4", "5", "6", "7", "8", "9">>

RECURSIVE IntStr(_)
IntStr(n) ==
    IF n < 10 THEN <<DigitChars[n + 1]>>
    ELSE IntStr(n \div 10) \o <<DigitChars[(n % 10) + 1]>>

Has(s, c) == \E i \in 1..Len(s) : s[i] = c

(* repr() of a str: double quotes when the text holds ' and no ", single *)
(* quotes otherwise with ' and \ escaped *)
ReprStr(s) ==
    IF Has(s, "'") /\ ~Has(s, "\"")
    THEN <<"\"">> \o Concat([i \in 1..Len(s) |->
             IF s[i] = "\\" THEN <<"\\", "\\">> ELSE <<s[i]>>]) \o <<"\"">>
    ELSE <<"'">> \o Concat([i \in 1..Len(s) |->
             IF s[i] \in {"'", "\\"} THEN <<"\\", s[i]>> ELSE <<s[i]>>]) \o <<"'">>

(* str() of a list entry that is not a str, repr() of any list entry *)
AtomStr(a) ==
    CASE a.t = "str" -> a.s
      [] a.t = "num" -> IntStr(a.n)
      [] a.t = "bool" -> IF a.n = 1 THEN <<"T", "r", "u", "e">>
                                    ELSE <<"F", "a", "l", "s", "e">>
      [] OTHER -> <<"N", "o", "n", "e">>

AtomRepr(a) == IF a.t = "str" THEN ReprStr(a.s) ELSE AtomStr(a)

ListRepr(items) ==
    <<"[">> \o Concat([i \in 1..Len(items) |->
        (IF i > 1 THEN <<",", " ">> ELSE <<>>) \o AtomRepr(items[i])]) \o <<"]">>

(* str(v) *)
PyStr(v) ==
    CASE v.t = "str" -> v.s
      [] v.t = "list" -> ListRepr(v.items)
      [] v.t = "dict" -> <<"{", "}">>
      [] OTHER -> AtomStr(v)

(* truth value of v; a missing key read by .get(key) is None *)
Truthy(v) ==
    CASE v.t = "str" -> v.s # <<>>
      [] v.t = "num" -> v.n # 0
      [] v.t = "bool" -> v.n = 1
      [] v.t = "list" -> v.items # <<>>
      [] OTHER -> FALSE

(* variant: d.get(key) or default *)
GetOrDefault(v, default) == IF Truthy(v) THEN v ELSE default

(* d.get(key, default) on the value found under the key *)
Get(v, default) == IF v.t = "absent" THEN default ELSE v

----------------------------------------------------------------------------
(* Output text *)

Lit(s) == <<[k |-> "lit", v |-> s]>>

Special == {"<", ">", "&", "\"", "'"}

EscChar(c) ==
    CASE c = "&" -> "&amp;"
      [] c = "<" -> "&lt;"
      [] c = ">" -> "&gt;"
      [] c = "\"" -> "&quot;"
      [] c = "'" -> "&#x27;"
      [] OTHER -> c

(* html.escape(s, quote=True) on a character sequence *)
HtmlEscape(s) == [i \in 1..Len(s) |-> [k |-> "val", v |-> EscChar(s[i])]]

(* variant: str(s) without html.escape *)
esc_unescaped(v) == [i \in 1..Len(PyStr(v)) |-> [k |-> "val", v |-> PyStr(v)[i]]]

(* esc(s) *)
esc(v) == HtmlEscape(PyStr(v))

(* the result of a call: it raised, or it returned out *)
Ok(out) == [err |-> FALSE, out |-> out]
Raise == [err |-> TRUE, out |-> <<>>]

RECURSIVE Seqn(_)
Seqn(rs) ==
    IF rs = <<>> THEN Ok(<<>>)
    ELSE LET rest == Seqn(Tail(rs))
         IN IF Head(rs).err \/ rest.err THEN Raise
            ELSE Ok(Head(rs).out \o rest.out)

----------------------------------------------------------------------------
(* Icon table *)

ACS_ICON_BASE == "https://scp-wiki.wdfiles.com/local--files/component:anomaly-class-bar"

ACS_ICON_MAP ==
  {
    <<<<"s", "a", "f", "e">>, "safe-icon.svg">>,
    <<<<"e", "u", "c", "l", "i", "d">>, "euclid-icon.svg">>,
    <<<<"k", "e", "t", "e", "r">>, "keter-icon.svg">>,
    <<<<"n", "e", "u", "t", "r", "a", "l", "i", "z", "e", "d">>, "neutralized-icon.svg">>,
    <<<<"p", "e", "n", "d", "i", "n", "g">>, "pending-icon.svg">>,
    <<<<"e", "x", "p", "l", "a", "i", "n", "e", "d">>, "explained-icon.svg">>,
    <<<<"e", "s", "o", "t", "e", "r", "i", "c">>, "esoteric-icon.svg">>,
    <<<<"t", "h", "a", "u", "m", "i", "e", "l">>, "thaumiel-icon.svg">>,
    <<<<"a", "p", "o", "l", "l", "y", "o", "n">>, "apollyon-icon.svg">>,
    <<<<"a", "r", "c", "h", "o", "n">>, "archon-icon.svg">>,
    <<<<"c", "e", "r", "n", "u", "n", "n", "o", "s">>, "cernunnos-icon.svg">>,
    <<<<"d", "e", "c", "o", "m", "m", "i", "s", "s", "i", "o", "n", "e", "d">>, "decommissioned-icon.svg">>,
    <<<<"h", "i", "e", "m", "a", "l">>, "hiemal-icon.svg">>,
    <<<<"t", "i", "a", "m", "a", "t">>, "tiamat-icon.svg">>,
    <<<<"t", "i", "c", "o", "n", "d", "e", "r", "o", "g", "a">>, "ticonderoga-icon.svg">>,
    <<<<"u", "n", "c", "o", "n", "t", "a", "i", "n", "e", "d">>, "uncontained-icon.svg">>,
    <<<<"d", "a", "r", "k">>, "dark-icon.svg">>,
    <<<<"v", "l", "a", "m">>, "vlam-icon.svg">>,
    <<<<"k", "e", "n", "e", "q">>, "keneq-icon.svg">>,
    <<<<"e", "k", "h", "i">>, "ekhi-icon.svg">>,
    <<<<"a", "m", "i", "d", "a">>, "amida-icon.svg">>,
    <<<<"n", "o", "n", "e">>, "notice-icon.svg">>,
    <<<<"n", "o", "t", "i", "c", "e">>, "notice-icon.svg">>,
    <<<<"c", "a", "u", "t", "i", "o", "n">>, "caution-icon.svg">>,
    <<<<"w", "a", "r", "n", "i", "n", "g">>, "warning-icon.svg">>,
    <<<<"d", "a", "n", "g", "e", "r">>, "danger-icon.svg">>,
    <<<<"c", "r", "i", "t", "i", "c", "a", "l">>, "critical-icon.svg">>
  }

IconKeys == {p[1] : p \in ACS_ICON_MAP}

(* ACS_ICON_MAP.get(key): the file name, "" standing for None *)
IconFile(key) ==
    IF key \in IconKeys THEN (CHOOSE p \in ACS_ICON_MAP : p[1] = key)[2] ELSE ""

(* variant: the lookup without value.lower() *)
acs_icon_url_exact(value) ==
    IF value.t # "str" THEN [err |-> TRUE, icon |-> "", file |-> ""]
    ELSE LET filename == IconFile(value.s)
         IN IF filename = "" THEN [err |-> FALSE, icon |-> "", file |-> ""]
            ELSE [err |-> FALSE, icon |-> ACS_ICON_BASE, file |-> filename]

(* acs_icon_url(value): raises when value has no lower(); icon "" is None *)
acs_icon_url(value) ==
    IF value.t # "str" THEN [err |-> TRUE, icon |-> "", file |-> ""]
    ELSE LET filename == IconFile(Lower(value.s))
         IN IF filename = "" THEN [err |-> FALSE, icon |-> "", file |-> ""]
            ELSE [err |-> FALSE, icon |-> ACS_ICON_BASE, file |-> filename]

----------------------------------------------------------------------------
(* Default values *)

DefTitle == Str(<<"S", "C", "P", "-", "X", "X", "X", "X">>)
DefObjectClass == Str(<<"E", "u", "c", "l", "i", "d">>)
DefClearanceLevel == Num(2)
DefClearanceLabel == Str(<<>>)
DefContainment == Str(<<"e", "u", "c", "l", "i", "d">>)
DefSecondary == Str(<<"n", "o", "n", "e">>)
DefDisruption == Str(<<"n", "o", "n", "e">>)
DefRisk == Str(<<"n", "o", "t", "i", "c", "e">>)
DefHeading == Str(<<"S", "e", "c", "t", "i", "o", "n">>)
DefFooterLeft == Str(<<"«">>)
DefFooterRight == Str(<<"»">>)
DefFooterCenter == Str(<<"S", "C", "P">>)
DefPageTitle == Str(<<"S", "C", "P", " ", "D", "o", "c", "u", "m", "e", "n", "t">>)

NoClassic == [item_number |-> Absent, object_class |-> Absent]
NoAcs == [item_number |-> Absent, clearance_level |-> Absent,
          clearance_label |-> Absent, containment_class |-> Absent,
          secondary_class |-> Absent, disruption_class |-> Absent,
          risk_class |-> Absent, memo_url |-> Absent]
NoFooter == [left |-> Absent, center |-> Absent, right |-> Absent]

(* a sub-record: a value of type t; f holds its keys when it is a dict *)
Sub(t, f) == [t |-> t, f |-> f]

(* data.get(key, {}) followed by .get on the result: the keys of the *)
(* sub-record, all missing for {}; the second component tells whether *)
(* .get raises (the value is not a dict) *)
SubGet(sub, none) ==
    IF sub.t = "absent" THEN [err |-> FALSE, f |-> none]
    ELSE IF sub.t = "dict" THEN [err |-> FALSE, f |-> sub.f]
    ELSE [err |-> TRUE, f |-> none]

----------------------------------------------------------------------------
(* Markup of the templates *)

LitHeaderOpen == "<section class=\"doc-header\">"
LitTitleOpen == "<div class=\"doc-title\">"
LitDivClose == "</div>"
LitSubtitleOpen == "<div class='doc-subtitle'>"
LitMetaOpen == "<div class=\"meta-lines\">"
LitItemKey == "<div><span class=\"meta-key\">Item #:</span> "
LitClassKey == "<div><span class=\"meta-key\">Object Class:</span> "
LitSectionClose == "</section>"
LitAcsBarOpen == "<div class=\"acs-bar\">"
LitAcsTopOpen == "<div class=\"acs-top\">"
LitAcsItem == "<div class=\"acs-item\"><span class=\"acs-k\">Item #</span>"
LitAcsClearance == "<div class=\"acs-item\"><span class=\"acs-k\">Clearance</span>"
LitCommentOpen == "<!-- "
LitCommentClose == " -->"
LitMemoOpen == "<a class='memo-link' href='"
LitMemoClose == "'>Link to memo</a>"
LitBadgesOpen == "<div class=\"acs-badges\">"
LitBadgeOpen == "<div class=\"badge badge--acs\">"
LitImgSrc == "<img src=\""
LitImgAlt == "\" alt=\""
LitImgRest == "\" class=\"badge__icon\" loading=\"lazy\" referrerpolicy=\"no-referrer\">"
LitBadgeText == "<div class=\"badge__text\">"
LitBadgeLabel == "<div class=\"badge__label\">"
LitBadgeValue == "<div class=\"badge__value\">"
LitSecOpen == "<section class=\"section\">"
LitSecLogOpen == "<section class=\"section section--log\">"
LitH2Open == "<h2>"
LitH2Close == "</h2>"
LitPOpen == "<p>"
LitPClose == "</p>"
LitNewline == "\n"
LitFooterOpen == "<footer class=\"doc-footer\">"
LitSpanOpen == "<span>"
LitSpanClose == "</span>"
LitFooterClose == "</footer>"
LitPageHead == "<!doctype html><html lang=\"en\"><head><meta charset=\"utf-8\"><title>"
LitPageStyle == "</title><style>...</style></head><body><article class=\"doc\">"
LitPageTail == "</article></body></html>"

----------------------------------------------------------------------------
(* Utilities *)

(* variant: the condition str(p), without strip() *)
NonBlankUnstripped(p) == AtomStr(p) # <<>>

(* the condition of the comprehension: str(p).strip() is non-empty *)
NonBlank(p) == Strip(AtomStr(p)) # <<>>

(* f"<p>{esc(p.strip())}</p>": p.strip() raises when p is not a str *)
Paragraph(p) ==
    IF p.t # "str" THEN Raise
    ELSE Ok(Lit(LitPOpen) \o HtmlEscape(Strip(p.s)) \o Lit(LitPClose))

(* the list the comprehension runs over *)
BodyItems(body) ==
    IF body.t = "str" THEN <<AStr(body.s)>>
    ELSE IF body.t = "list" THEN body.items
    ELSE <<AStr(PyStr(body))>>

(* "\n".join over the entries kept *)
RECURSIVE JoinParagraphs(_, _)
JoinParagraphs(items, first) ==
    IF items = <<>> THEN Ok(<<>>)
    ELSE IF ~NonBlank(Head(items)) THEN JoinParagraphs(Tail(items), first)
    ELSE Seqn(<<Ok(IF first THEN <<>> ELSE Lit(LitNewline)),
                Paragraph(Head(items)),
                JoinParagraphs(Tail(items), FALSE)>>)

to_paragraphs(body) ==
    IF body.t \in {"absent", "null"} THEN Ok(<<>>)
    ELSE JoinParagraphs(BodyItems(body), TRUE)

----------------------------------------------------------------------------
(* Header renderers *)

(* the optional subtitle block of both headers *)
SubtitleBlock(d) ==
    IF Truthy(d.subtitle)
    THEN Lit(LitSubtitleOpen) \o esc(d.subtitle) \o Lit(LitDivClose)
    ELSE <<>>

(* the title shown by the classic header *)
ClassicTitle(d, classic) ==
    Get(d.title, Get(classic.item_number, Get(d.title, DefTitle)))

render_classic_header(d) ==
    LET c == SubGet(d.classic, NoClassic)
        item_number == Get(c.f.item_number, Get(d.title, DefTitle))
        object_class == Get(c.f.object_class, DefObjectClass)
    IN IF c.err THEN Raise
       ELSE Ok(Lit(LitHeaderOpen)
               \o Lit(LitTitleOpen) \o esc(ClassicTitle(d, c.f)) \o Lit(LitDivClose)
               \o SubtitleBlock(d)
               \o Lit(LitMetaOpen)
               \o Lit(LitItemKey) \o esc(item_number) \o Lit(LitDivClose)
               \o Lit(LitClassKey) \o esc(object_class) \o Lit(LitDivClose)
               \o Lit(LitDivClose)
               \o Lit(LitSectionClose))

acs_badge(label, value) ==
    LET icon == acs_icon_url(value)
    IN IF icon.err THEN Raise
       ELSE IF icon.icon = "" THEN Ok(<<>>)
       ELSE Ok(Lit(LitBadgeOpen)
               \o Lit(LitImgSrc) \o Lit(icon.icon) \o Lit("/") \o Lit(icon.file)
               \o Lit(LitImgAlt)
               \o HtmlEscape(label) \o HtmlEscape(<<":", " ">>) \o esc(value)
               \o Lit(LitImgRest)
               \o Lit(LitBadgeText)
               \o Lit(LitBadgeLabel) \o HtmlEscape(label) \o Lit(LitDivClose)
               \o Lit(LitBadgeValue) \o esc(value) \o Lit(LitDivClose)
               \o Lit(LitDivClose) \o Lit(LitDivClose))

(* variant: the placeholder whatever the title *)
AcsTitlePlaceholder(d) == DefTitle

(* the title shown by the ACS header *)
AcsTitle(d) == Get(d.title, DefTitle)

(* "Level {clearance_level}" and ": {clearance_label}" when the label is truthy *)
Clearance(level, label) ==
    <<"L", "e", "v", "e", "l", " ">> \o PyStr(level)
    \o (IF Truthy(label) THEN <<":", " ">> \o PyStr(label) ELSE <<>>)

(* variant: the comment closed before the link *)
MemoCommentVisible(memo_url) ==
    Lit(LitCommentOpen) \o Lit(LitCommentClose)
    \o (IF Truthy(memo_url)
        THEN Lit(LitMemoOpen) \o esc(memo_url) \o Lit(LitMemoClose)
        ELSE <<>>)

(* the comment line of the acs-top block *)
MemoComment(memo_url) ==
    Lit(LitCommentOpen)
    \o (IF Truthy(memo_url)
        THEN Lit(LitMemoOpen) \o esc(memo_url) \o Lit(LitMemoClose)
        ELSE <<>>)
    \o Lit(LitCommentClose)

LabelContainment == <<"C", "o", "n", "t", "a", "i", "n", "m", "e", "n", "t">>
LabelSecondary == <<"S", "e", "c", "o", "n", "d", "a", "r", "y">>
LabelDisruption == <<"D", "i", "s", "r", "u", "p", "t", "i", "o", "n">>
LabelRisk == <<"R", "i", "s", "k">>

(* variant: Risk before Disruption *)
AcsBadgesRiskFirst(containment, secondary, disruption, risk) ==
    Seqn(<<acs_badge(<<"C", "o", "n", "t", "a", "i", "n", "m", "e", "n", "t">>, containment),
           acs_badge(<<"S", "e", "c", "o", "n", "d", "a", "r", "y">>, secondary),
           acs_badge(<<"R", "i", "s", "k">>, risk),
           acs_badge(<<"D", "i", "s", "r", "u", "p", "t", "i", "o", "n">>, disruption)>>)

(* the four badges of the acs-badges block, in the order of the template *)
AcsBadges(containment, secondary, disruption, risk) ==
    Seqn(<<acs_badge(LabelContainment, containment),
           acs_badge(LabelSecondary, secondary),
           acs_badge(LabelDisruption, disruption),
           acs_badge(LabelRisk, risk)>>)

render_acs_header(d) ==
    LET a == SubGet(d.acs, NoAcs)
        title == AcsTitle(d)
        item_number == Get(a.f.item_number, title)
        clearance_level == Get(a.f.clearance_level, DefClearanceLevel)
        clearance_label == Get(a.f.clearance_label, DefClearanceLabel)
        containment == Get(a.f.containment_class, DefContainment)
        secondary == Get(a.f.secondary_class, DefSecondary)
        disruption == Get(a.f.disruption_class, DefDisruption)
        risk == Get(a.f.risk_class, DefRisk)
    IN IF a.err THEN Raise
       ELSE Seqn(<<
            Ok(Lit(LitHeaderOpen)
               \o Lit(LitTitleOpen) \o esc(title) \o Lit(LitDivClose)
               \o SubtitleBlock(d)
               \o Lit(LitAcsBarOpen) \o Lit(LitAcsTopOpen)
               \o Lit(LitAcsItem) \o esc(item_number) \o Lit(LitDivClose)
               \o Lit(LitAcsClearance)
               \o HtmlEscape(Clearance(clearance_level, clearance_label))
               \o Lit(LitDivClose)
               \o MemoComment(a.f.memo_url)
               \o Lit(LitDivClose)
               \o Lit(LitBadgesOpen)),
            AcsBadges(containment, secondary, disruption, risk),
            Ok(Lit(LitDivClose) \o Lit(LitDivClose) \o Lit(LitSectionClose))>>)

----------------------------------------------------------------------------
(* Sections / Footer / HTML *)

(* the test that sec.get("kind") is "log" *)
IsLog(kind) == kind.t = "str" /\ kind.s = <<"l", "o", "g">>

(* one round of the loop of render_sections; sec.get raises unless sec is a dict *)
RenderSection(sec) ==
    IF sec.t # "dict" THEN Raise
    ELSE Seqn(<<
        Ok(Lit(IF IsLog(sec.kind) THEN LitSecLogOpen ELSE LitSecOpen)
           \o Lit(LitH2Open) \o esc(Get(sec.heading, DefHeading)) \o Lit(LitH2Close)),
        to_paragraphs(sec.body),
        Ok(Lit(LitSectionClose))>>)

RECURSIVE JoinSections(_, _)
JoinSections(secs, first) ==
    IF secs = <<>> THEN Ok(<<>>)
    ELSE Seqn(<<Ok(IF first THEN <<>> ELSE Lit(LitNewline)),
                RenderSection(Head(secs)),
                JoinSections(Tail(secs), FALSE)>>)

(* what "for sec in data.get('sections', [])" runs over; a str yields its *)
(* characters, a number, a boolean or None cannot be iterated *)
SectionItems(sections) ==
    CASE sections.t = "absent" -> Ok(<<>>)
      [] sections.t = "list" -> Ok(sections.secs)
      [] sections.t = "dict" -> Ok(<<>>)
      [] sections.t = "str" ->
           Ok([i \in 1..Len(sections.s) |->
                 [t |-> "str", kind |-> Absent, heading |-> Absent, body |-> Absent]])
      [] OTHER -> Raise

render_sections(d) ==
    LET its == SectionItems(d.sections)
    IN IF its.err THEN Raise ELSE JoinSections(its.out, TRUE)

render_footer(d) ==
    LET foot == SubGet(d.footer, NoFooter)
    IN IF foot.err THEN Raise
       ELSE Ok(Lit(LitFooterOpen)
               \o Lit(LitSpanOpen) \o esc(Get(foot.f.left, DefFooterLeft)) \o Lit(LitSpanClose)
               \o Lit(LitSpanOpen)
               \o esc(Get(foot.f.center, Get(d.title, DefFooterCenter)))
               \o Lit(LitSpanClose)
               \o Lit(LitSpanOpen) \o esc(Get(foot.f.right, DefFooterRight)) \o Lit(LitSpanClose)
               \o Lit(LitFooterClose))

(* variant: the comparison after lower() *)
IsAcsModeAnyCase(mode) == mode.t = "str" /\ Lower(mode.s) = <<"a", "c", "s">>

(* the test that data.get("header_mode") is "acs" *)
IsAcsMode(mode) == mode.t = "str" /\ mode.s = <<"a", "c", "s">>

(* the header chosen by build_html *)
Header(d) ==
    IF IsAcsMode(d.header_mode) THEN render_acs_header(d)
                                ELSE render_classic_header(d)

(* build_html(data); a parsed value that is not a dict has no get() *)
build_html(d) ==
    IF d.t # "dict" THEN Raise
    ELSE Seqn(<<
        Ok(Lit(LitPageHead) \o esc(Get(d.title, DefPageTitle)) \o Lit(LitPageStyle)),
        Header(d),
        Ok(Lit(LitNewline)),
        render_sections(d),
        Ok(Lit(LitNewline)),
        render_footer(d),
        Ok(Lit(LitPageTail))>>)

----------------------------------------------------------------------------
(* Input records *)

SeqsUpTo(S, n) == UNION {[1..k -> S] : k \in 0..n}

EmptyDoc ==
    [t |-> "dict", title |-> Absent, subtitle |-> Absent, header_mode |-> Absent,
     classic |-> Sub("absent", NoClassic), acs |-> Sub("absent", NoAcs),
     sections |-> [t |-> "absent", s |-> <<>>, secs |-> <<>>],
     footer |-> Sub("absent", NoFooter)]

AcsMode == Str(<<"a", "c", "s">>)
AcsDoc == [EmptyDoc EXCEPT !.header_mode = AcsMode]

TextChars == {"<", ">", "&", "\"", "'", "a", " "}
TextStrings == SeqsUpTo(TextChars, MaxLen)

UrlChars == {"-", ">", "'", "a"}
UrlStrings == SeqsUpTo(UrlChars, MaxUrlLen)

(* values of every JSON type around a set of strings *)
Values(strings) ==
    {Absent, Null, Num(0), Num(12), Bool(0), Bool(1), EmptyDict, List(<<>>),
     List(<<AStr(<<"'">>), ANum(3)>>), List(<<AStr(<<"<", "\"">>)>>)}
    \cup {Str(x) : x \in strings}

FewValues ==
    {Absent, Null, Num(0), Str(<<>>), Str(<<"<", "b", ">">>), Str(<<"I", "&">>)}

TitleT == Str(<<"T">>)

ModeValues ==
    {Absent, Null, Num(1), Bool(1), List(<<AStr(<<"a", "c", "s">>)>>), AcsMode,
     Str(<<"A", "C", "S">>), Str(<<"A", "c", "s">>), Str(<<"c", "l", "a", "s", "s", "i", "c">>),
     Str(<<>>), Str(<<"a", "c", "s", " ">>), Str(<<"a", "c">>)}

ModeDocs ==
    {[EmptyDoc EXCEPT !.header_mode = m, !.title = ti,
                      !.classic = c, !.acs = a] :
        m \in ModeValues, ti \in {Absent, TitleT},
        c \in {Sub("absent", NoClassic), Sub("null", NoClassic)},
        a \in {Sub("absent", NoAcs), Sub("num", NoAcs)}}

TitleDocs ==
    {[EmptyDoc EXCEPT !.header_mode = m, !.title = ti, !.subtitle = su,
                      !.classic = c] :
        m \in {Absent, AcsMode}, ti \in Values(TextStrings),
        su \in {Absent, Str(<<>>), Str(<<"<", "s">>), Num(0)},
        c \in {Sub("absent", NoClassic),
               Sub("dict", [NoClassic EXCEPT !.item_number = Str(<<"I", "-", "1">>)])}}

ClassicDocs ==
    {[EmptyDoc EXCEPT !.title = ti, !.classic = c] :
        ti \in {Absent, TitleT},
        c \in {Sub(t, NoClassic) : t \in {"null", "str", "num", "list", "dict"}}
              \cup {Sub("dict", [item_number |-> i, object_class |-> o]) :
                        i \in Values(TextStrings),
                        o \in {Absent, Str(<<>>), Str(<<"K", "<">>)}}}

AcsTopDocs ==
    {[AcsDoc EXCEPT !.title = ti, !.acs = a] :
        ti \in {Absent, TitleT},
        a \in {Sub(t, NoAcs) : t \in {"null", "str", "num", "list", "dict"}}
              \cup {Sub("dict", [NoAcs EXCEPT !.item_number = i,
                                              !.clearance_level = lv,
                                              !.clearance_label = lb]) :
                        i \in FewValues,
                        lv \in {Absent, Num(0), Num(3), Str(<<"<", "4">>), Null},
                        lb \in FewValues}
              \cup {Sub("dict", [NoAcs EXCEPT !.clearance_label = lb]) :
                        lb \in Values(TextStrings)}}

MemoDocs ==
    {[EmptyDoc EXCEPT !.header_mode = m,
                      !.acs = Sub("dict", [NoAcs EXCEPT !.memo_url = u])] :
        m \in {Absent, AcsMode}, u \in Values(UrlStrings)}

(* a table key with the letters at the positions up written in upper case *)
Recase(key, up) ==
    [i \in 1..Len(key) |-> IF i \in up THEN UpperChar(key[i]) ELSE key[i]]

CasedKeys == {Recase(key, up) : key \in IconKeys, up \in SUBSET (1..MaxUpper)}

AxisNames == {"containment_class", "secondary_class", "disruption_class", "risk_class"}

CaseDocs ==
    {[AcsDoc EXCEPT !.acs = Sub("dict", [NoAcs EXCEPT ![ax] = Str(x)])] :
        ax \in AxisNames, x \in CasedKeys}

AxisValues ==
    {Absent, Num(1), Str(<<>>), Str(<<"K", "e", "t", "e", "r">>),
     Str(<<"n", "o", "n", "e">>),
     Str(<<"u", "n", "k", "n", "o", "w", "n", "-", "v", "a", "l", "u", "e">>)}

AxisDocs ==
    {[AcsDoc EXCEPT !.acs = Sub("dict", [NoAcs EXCEPT !.containment_class = c,
                                                      !.secondary_class = se,
                                                      !.disruption_class = di,
                                                      !.risk_class = ri])] :
        c \in AxisValues, se \in AxisValues, di \in AxisValues, ri \in AxisValues}

BodyEntries ==
    {AStr(<<>>), AStr(<<" ">>), AStr(<<"a">>), AStr(<<" ", "b", "\t">>),
     AStr(<<"<", " ", "&">>), ANum(1), ANull}

Bodies ==
    {Absent, Null, Num(0), Num(45), Bool(1), EmptyDict,
     Str(<<>>), Str(<<" ", "\n">>), Str(<<" ", "x", ">", " ">>)}
    \cup {List(b) : b \in SeqsUpTo(BodyEntries, MaxBody)}

Section(kind, heading, body) ==
    [t |-> "dict", kind |-> kind, heading |-> heading, body |-> body]

LogKind == Str(<<"l", "o", "g">>)

FewSections ==
    {Section(k, h, b) :
        k \in {Absent, LogKind, Str(<<"L", "o", "g">>), Null},
        h \in FewValues,
        b \in {Absent, Str(<<"x">>), List(<<AStr(<<"a">>), AStr(<<>>), AStr(<<"b">>)>>)}}

WrongSections ==
    {[t |-> ty, kind |-> Absent, heading |-> Absent, body |-> Absent] :
        ty \in {"null", "str", "num", "list"}}

SectionLists ==
    {<<Section(Absent, Str(<<"H">>), b)>> : b \in Bodies}
    \cup {<<x>> : x \in FewSections \cup WrongSections}
    \cup {<<x, y>> : x \in {Section(Absent, Absent, Str(<<"p">>)),
                            Section(LogKind, Absent, Num(0))},
                     y \in {Section(LogKind, Str(<<"2">>), List(<<AStr(<<"q">>)>>)),
                            Section(Absent, Absent, List(<<ANum(2)>>))}
                           \cup WrongSections}

SectionsValues ==
    {[t |-> "list", s |-> <<>>, secs |-> l] : l \in SectionLists \cup {<<>>}}
    \cup {[t |-> ty, s |-> x, secs |-> <<>>] :
            ty \in {"null", "num", "bool", "dict"}, x \in {<<>>}}
    \cup {[t |-> "str", s |-> x, secs |-> <<>>] : x \in {<<>>, <<"a", "b">>}}

SectionDocs ==
    {[EmptyDoc EXCEPT !.header_mode = m, !.sections = sv] :
        m \in {Absent, AcsMode}, sv \in SectionsValues}

FooterDocs ==
    {[EmptyDoc EXCEPT !.title = ti, !.footer = f] :
        ti \in {Absent, TitleT, Str(<<>>)},
        f \in {Sub(t, NoFooter) : t \in {"null", "str", "num", "list", "dict"}}
              \cup {Sub("dict", [left |-> l, center |-> c, right |-> r]) :
                        l \in FewValues, c \in FewValues, r \in FewValues}}

(* a parsed value that is not a record *)
NonRecord == [EmptyDoc EXCEPT !.t = "list"]

----------------------------------------------------------------------------
(* main *)

NoFile == [state |-> "untouched", text |-> <<>>]

Init ==
    /\ argc \in 1..4
    /\ infile \in {"missing", "invalid", "valid"}
    /\ \/ input \in ModeDocs
       \/ input \in TitleDocs
       \/ input \in ClassicDocs
       \/ input \in AcsTopDocs
       \/ input \in MemoDocs
       \/ input \in CaseDocs
       \/ input \in AxisDocs
       \/ input \in SectionDocs
       \/ input \in FooterDocs
       \/ input = NonRecord
    /\ (argc # 3 \/ infile # "valid") => input = EmptyDoc
    /\ pc = "args"
    /\ data = EmptyDoc
    /\ html = <<>>
    /\ outfile = NoFile
    /\ stdout = ""
    /\ stderr = ""
    /\ status = -1

(* an uncaught exception: traceback on stderr, exit status 1 *)
Uncaught ==
    /\ pc' = "exit"
    /\ stderr' = "Traceback"
    /\ status' = 1

(* variant: the check len(sys.argv) < 3 *)
CheckArgsAtLeast ==
    /\ pc = "args"
    /\ IF argc < 3
       THEN /\ stderr' = "Usage: python scpdocgen.py SCPDOC.json output.html"
            /\ status' = 1
            /\ pc' = "exit"
       ELSE /\ pc' = "read"
            /\ UNCHANGED <<stderr, status>>
    /\ UNCHANGED <<argc, infile, input, data, html, outfile, stdout>>

(* if len(sys.argv) != 3: print usage, return 1 *)
CheckArgs ==
    /\ pc = "args"
    /\ IF argc # 3
       THEN /\ stderr' = "Usage: python scpdocgen.py SCPDOC.json output.html"
            /\ status' = 1
            /\ pc' = "exit"
       ELSE /\ pc' = "read"
            /\ UNCHANGED <<stderr, status>>
    /\ UNCHANGED <<argc, infile, input, data, html, outfile, stdout>>

(* Path(sys.argv[1]).read_text(encoding="utf-8") *)
ReadText ==
    /\ pc = "read"
    /\ IF infile = "missing"
       THEN Uncaught
       ELSE /\ pc' = "parse"
            /\ UNCHANGED <<stderr, status>>
    /\ UNCHANGED <<argc, infile, input, data, html, outfile, stdout>>

(* data = json.loads(...) *)
JsonLoads ==
    /\ pc = "parse"
    /\ IF infile = "invalid"
       THEN Uncaught /\ UNCHANGED data
       ELSE /\ data' = input
            /\ pc' = "render"
            /\ UNCHANGED <<stderr, status>>
    /\ UNCHANGED <<argc, infile, input, html, outfile, stdout>>

(* the argument build_html(data) of write_text is evaluated before the call *)
BuildHtml ==
    /\ pc = "render"
    /\ LET r == build_html(data)
       IN IF r.err
          THEN Uncaught /\ UNCHANGED html
          ELSE /\ html' = r.out
               /\ pc' = "write"
               /\ UNCHANGED <<stderr, status>>
    /\ UNCHANGED <<argc, infile, input, data, outfile, stdout>>

(* Path(sys.argv[2]).write_text(html): open for writing, write, close; the *)
(* open may fail (nothing touched), the write may fail after the open *)
WriteText ==
    /\ pc = "write"
    /\ \E outcome \in {"written", "open failed", "write failed"} :
         CASE outcome = "written" ->
                /\ outfile' = [state |-> "written", text |-> html]
                /\ pc' = "print"
                /\ UNCHANGED <<stderr, status>>
           [] outcome = "open failed" ->
                /\ Uncaught
                /\ UNCHANGED outfile
           [] OTHER ->
                /\ Uncaught
                /\ outfile' = [state |-> "truncated", text |-> <<>>]
    /\ UNCHANGED <<argc, infile, input, data, html, stdout>>

(* print("HTML generated."); return 0 *)
PrintDone ==
    /\ pc = "print"
    /\ stdout' = "HTML generated."
    /\ status' = 0
    /\ pc' = "exit"
    /\ UNCHANGED <<argc, infile, input, data, html, outfile, stderr>>

Next == CheckArgs \/ ReadText \/ JsonLoads \/ BuildHtml \/ WriteText \/ PrintDone

Spec == Init /\ [][Next]_vars

----------------------------------------------------------------------------
(* Reading the output text *)

(* build_html has returned and nothing has been written yet *)
Rendered == pc = "write"

IsLit(tok, m) == tok.k = "lit" /\ tok.v = m

Positions(out, m) == {i \in 1..Len(out) : IsLit(out[i], m)}

Count(out, m) == Cardinality(Positions(out, m))

(* the positions of a set in increasing order *)
RECURSIVE Ascending(_)
Ascending(S) ==
    IF S = {} THEN <<>>
    ELSE LET lo == CHOOSE i \in S : \A j \in S : i <= j
         IN <<lo>> \o Ascending(S \ {lo})

(* the interpolated tokens that start at position i *)
RECURSIVE ValRun(_, _)
ValRun(out, i) ==
    IF i > Len(out) \/ out[i].k # "val" THEN <<>>
    ELSE <<out[i]>> \o ValRun(out, i + 1)

(* the interpolated tokens that follow each occurrence of the markup m *)
RunsAfter(out, m) ==
    LET at == Ascending(Positions(out, m))
    IN [j \in 1..Len(at) |-> ValRun(out, at[j] + 1)]

(* the characters a value is expected to show, escaped by the table of *)
(* character references of HTML *)
Entity(c) ==
    IF c = "&" THEN "&amp;" ELSE IF c = "<" THEN "&lt;" ELSE IF c = ">" THEN "&gt;"
    ELSE IF c = "\"" THEN "&quot;" ELSE IF c = "'" THEN "&#x27;" ELSE c

Shown(chars) == [i \in 1..Len(chars) |-> [k |-> "val", v |-> Entity(chars[i])]]

----------------------------------------------------------------------------
(* C1: in every output text no character <, >, &, " or ' of an *)
(* interpolated value appears raw: each token that comes from a value is *)
(* either a harmless character or a character reference. *)
C1_EscapingTotal ==
    \A i \in 1..Len(html) : html[i].k = "val" => html[i].v \notin Special

(* C1 witness: a memo URL with a quote was rendered into the href attribute *)
(* and a title with < into text, both as character references *)
C1_Witness ==
    /\ Rendered
    /\ data.acs.f.memo_url.t = "str" /\ Has(data.acs.f.memo_url.s, "'")
    /\ IsAcsMode(data.header_mode)
    /\ \E i \in 1..Len(html) : html[i] = [k |-> "val", v |-> "&#x27;"]

(* C2: build_html returns for every parsed record, whatever the shape of *)
(* its fields: no record makes the rendering raise. *)
C2_RenderingTotal ==
    (pc = "exit" /\ argc = 3 /\ infile = "valid" /\ input.t = "dict")
        => outfile.state # "untouched" \/ html # <<>>

(* C3: the ACS header is chosen exactly when header_mode is the string *)
(* "acs", the classic header otherwise, and the output holds exactly one *)
(* header, of exactly one of the two kinds. *)
C3_HeaderSelection ==
    Rendered =>
        /\ Count(html, LitHeaderOpen) = 1
        /\ Count(html, LitAcsBarOpen) = (IF data.header_mode = AcsMode THEN 1 ELSE 0)
        /\ Count(html, LitMetaOpen) = (IF data.header_mode = AcsMode THEN 0 ELSE 1)

(* C3 witness: header_mode "ACS" was rendered with the classic header *)
C3_Witness ==
    /\ Rendered
    /\ data.header_mode = Str(<<"A", "C", "S">>)
    /\ Count(html, LitMetaOpen) = 1

(* the four axes of a record in the order of the header, each with its *)
(* label and its value, given or defaulted *)
Axes(d) ==
    LET f == IF d.acs.t = "dict" THEN d.acs.f ELSE NoAcs
    IN <<[label |-> <<"C", "o", "n", "t", "a", "i", "n", "m", "e", "n", "t">>,
          value |-> IF f.containment_class.t = "absent"
                    THEN Str(<<"e", "u", "c", "l", "i", "d">>) ELSE f.containment_class],
         [label |-> <<"S", "e", "c", "o", "n", "d", "a", "r", "y">>,
          value |-> IF f.secondary_class.t = "absent"
                    THEN Str(<<"n", "o", "n", "e">>) ELSE f.secondary_class],
         [label |-> <<"D", "i", "s", "r", "u", "p", "t", "i", "o", "n">>,
          value |-> IF f.disruption_class.t = "absent"
                    THEN Str(<<"n", "o", "n", "e">>) ELSE f.disruption_class],
         [label |-> <<"R", "i", "s", "k">>,
          value |-> IF f.risk_class.t = "absent"
                    THEN Str(<<"n", "o", "t", "i", "c", "e">>) ELSE f.risk_class]>>

InTable(value) == value.t = "str" /\ \E p \in ACS_ICON_MAP : p[1] = Lower(value.s)

KnownAxis(ax) == InTable(ax.value)

(* the labels of the badges of an output text, in order of appearance *)
BadgeLabels(out) == RunsAfter(out, LitBadgeLabel)

(* C4: the ACS header shows one badge for each axis whose lower-cased *)
(* value is in the icon table, in the order Containment, Secondary, *)
(* Disruption, Risk, and nothing (no image, no placeholder) for the others. *)
C4_BadgesOfKnownAxes ==
    (Rendered /\ data.header_mode = AcsMode) =>
        LET known == SelectSeq(Axes(data), KnownAxis)
        IN /\ BadgeLabels(html) = [j \in 1..Len(known) |-> Shown(known[j].label)]
           /\ Count(html, LitBadgeOpen) = Len(known)
           /\ Count(html, LitImgSrc) = Len(known)

(* C4 witness: containment "unknown-value" with three valid axes gave three badges *)
C4_Witness ==
    /\ Rendered /\ data.header_mode = AcsMode
    /\ data.acs.f.containment_class =
         Str(<<"u", "n", "k", "n", "o", "w", "n", "-", "v", "a", "l", "u", "e">>)
    /\ Count(html, LitBadgeOpen) = 3
    /\ Count(html, LitImgSrc) = 3

(* the spellings of a string that differ from it in letter case only, at *)
(* the first MaxUpper positions *)
Casings(chars) == {Recase(Lower(chars), up) : up \in SUBSET (1..MaxUpper)}

LitsOf(out) == SelectSeq(out, LAMBDA tok : tok.k = "lit")

(* C5 as stated: two axis values that differ in letter case only give the *)
(* same badge fragment. *)
C5_SameFragment ==
    (Rendered /\ data.header_mode = AcsMode) =>
        \A j \in 1..4 :
            LET ax == Axes(data)[j]
            IN InTable(ax.value) =>
                 \A y \in Casings(ax.value.s) :
                     acs_badge(ax.label, Str(y)) = acs_badge(ax.label, ax.value)

(* C5 amended: two axis values that differ in letter case only give badges *)
(* with the same markup and the same icon address; the alt text and the *)
(* value text show each value in its own spelling. *)
C5_SameIcon ==
    (Rendered /\ data.header_mode = AcsMode) =>
        \A j \in 1..4 :
            LET ax == Axes(data)[j]
                mine == acs_badge(ax.label, ax.value)
            IN InTable(ax.value) =>
                 \A y \in Casings(ax.value.s) :
                     LET other == acs_badge(ax.label, Str(y))
                     IN /\ ~other.err /\ ~mine.err
                        /\ LitsOf(other.out) = LitsOf(mine.out)
                        /\ Count(other.out, LitImgSrc) = 1
                        /\ RunsAfter(other.out, LitBadgeValue) = <<Shown(y)>>
                        /\ RunsAfter(other.out, LitImgAlt)
                             = <<Shown(ax.label \o <<":", " ">> \o y)>>

(* C5 witness: the containment class "SAFE" was rendered with its badge *)
C5_Witness ==
    /\ Rendered /\ data.header_mode = AcsMode
    /\ data.acs.f.containment_class = Str(<<"S", "A", "F", "E">>)
    /\ \E i \in 1..Len(html) : IsLit(html[i], "safe-icon.svg")
    /\ RunsAfter(html, LitBadgeValue)[1] = Shown(<<"S", "A", "F", "E">>)

(* the body of a section as a sequence of entries *)
Normalised(body) ==
    CASE body.t \in {"absent", "null"} -> <<>>
      [] body.t = "str" -> <<body.s>>
      [] body.t = "list" -> [i \in 1..Len(body.items) |-> AtomStr(body.items[i])]
      [] OTHER -> <<PyStr(body)>>

Blank(chars) == \A i \in 1..Len(chars) : chars[i] \in {" ", "\t", "\n"}

(* chars without its leading and trailing white space *)
Stripped(chars) ==
    IF Blank(chars) THEN <<>>
    ELSE LET lo == CHOOSE i \in 1..Len(chars) :
                      /\ chars[i] \notin {" ", "\t", "\n"}
                      /\ \A j \in 1..(i - 1) : chars[j] \in {" ", "\t", "\n"}
             hi == CHOOSE i \in 1..Len(chars) :
                      /\ chars[i] \notin {" ", "\t", "\n"}
                      /\ \A j \in (i + 1)..Len(chars) : chars[j] \in {" ", "\t", "\n"}
         IN SubSeq(chars, lo, hi)

NotBlank(chars) == ~Blank(chars)

(* the part of an output text from position lo up to the next </section> *)
SectionPart(out, lo) ==
    LET hi == CHOOSE i \in lo..Len(out) :
                 /\ IsLit(out[i], LitSectionClose)
                 /\ \A j \in lo..(i - 1) : ~IsLit(out[j], LitSectionClose)
    IN SubSeq(out, lo, hi)

(* C6: each section shows one paragraph for each entry of its normalised *)
(* body that is not blank, in the order of the input, holding the entry *)
(* stripped and escaped; blank entries leave nothing in the output. *)
C6_ParagraphPerEntry ==
    (Rendered /\ data.sections.t = "list") =>
        LET at == Ascending(Positions(html, LitSecOpen) \cup Positions(html, LitSecLogOpen))
        IN /\ Len(at) = Len(data.sections.secs)
           /\ \A j \in 1..Len(at) :
                LET part == SectionPart(html, at[j])
                    kept == SelectSeq(Normalised(data.sections.secs[j].body), NotBlank)
                IN /\ RunsAfter(part, LitPOpen)
                        = [i \in 1..Len(kept) |-> Shown(Stripped(kept[i]))]
                   /\ Count(part, LitPOpen) = Len(kept)
                   /\ Count(part, LitPClose) = Len(kept)
                   /\ \A i \in Positions(part, LitPOpen) :
                        IsLit(part[i + 1 + Len(ValRun(part, i + 1))], LitPClose)

(* C6 witness: a body of three entries, one of them blank, gave two paragraphs *)
C6_Witness ==
    /\ Rendered
    /\ data.sections.t = "list" /\ Len(data.sections.secs) = 1
    /\ data.sections.secs[1].body
         = List(<<AStr(<<" ", "b", "\t">>), AStr(<<" ">>), AStr(<<"<", " ", "&">>)>>)
    /\ Count(html, LitPOpen) = 2
    /\ RunsAfter(html, LitPOpen) = <<Shown(<<"b">>), Shown(<<"<", " ", "&">>)>>

(* the characters shown for a key: those of its value when the key is *)
(* there, those of the default when it is missing *)
OrElse(v, default) == IF v.t = "absent" THEN default ELSE PyStr(v)

TextXXXX == <<"S", "C", "P", "-", "X", "X", "X", "X">>

KeysOf(sub, none) == IF sub.t = "dict" THEN sub.f ELSE none

(* C7: a default is used exactly when its key is missing; a key that is *)
(* there with an empty or otherwise falsy value is shown as that value. *)
C7_DefaultsByAbsence ==
    Rendered =>
        LET c == KeysOf(data.classic, NoClassic)
            a == KeysOf(data.acs, NoAcs)
            f == KeysOf(data.footer, NoFooter)
            secs == IF data.sections.t = "list" THEN data.sections.secs ELSE <<>>
            level == OrElse(a.clearance_level, <<"2">>)
            label == IF Truthy(a.clearance_label)
                     THEN <<":", " ">> \o PyStr(a.clearance_label) ELSE <<>>
        IN /\ RunsAfter(html, LitPageHead)
                = <<Shown(OrElse(data.title,
                      <<"S", "C", "P", " ", "D", "o", "c", "u", "m", "e", "n", "t">>))>>
           /\ data.header_mode # AcsMode =>
                /\ RunsAfter(html, LitTitleOpen)
                     = <<Shown(OrElse(data.title, OrElse(c.item_number, TextXXXX)))>>
                /\ RunsAfter(html, LitItemKey)
                     = <<Shown(OrElse(c.item_number, OrElse(data.title, TextXXXX)))>>
                /\ RunsAfter(html, LitClassKey)
                     = <<Shown(OrElse(c.object_class, <<"E", "u", "c", "l", "i", "d">>))>>
           /\ data.header_mode = AcsMode =>
                /\ RunsAfter(html, LitTitleOpen) = <<Shown(OrElse(data.title, TextXXXX))>>
                /\ RunsAfter(html, LitAcsItem)
                     = <<Shown(OrElse(a.item_number, OrElse(data.title, TextXXXX)))>>
                /\ RunsAfter(html, LitAcsClearance)
                     = <<Shown(<<"L", "e", "v", "e", "l", " ">> \o level \o label)>>
                /\ Count(html, LitBadgeOpen) = Len(SelectSeq(Axes(data), KnownAxis))
           /\ RunsAfter(html, LitH2Open)
                = [j \in 1..Len(secs) |->
                     Shown(OrElse(secs[j].heading, <<"S", "e", "c", "t", "i", "o", "n">>))]
           /\ RunsAfter(html, LitSpanOpen)
                = <<Shown(OrElse(f.left, <<"«">>)),
                    Shown(OrElse(f.center, OrElse(data.title, <<"S", "C", "P">>))),
                    Shown(OrElse(f.right, <<"»">>))>>

(* C7 witness: a title that is the empty string was shown as the empty string *)
C7_Witness ==
    /\ Rendered
    /\ data.title = Str(<<>>)
    /\ data.footer.t = "dict" /\ data.footer.f.left = Str(<<>>)
    /\ RunsAfter(html, LitTitleOpen) = << <<>> >>
    /\ RunsAfter(html, LitSpanOpen)[1] = <<>>

(* the run fails before the write: wrong argument count, unreadable or *)
(* unparsable input, or a record the rendering raises on *)
FailsBeforeWrite ==
    \/ argc # 3
    \/ infile # "valid"
    \/ input.t # "dict"
    \/ (\E r \in {build_html(input)} : r.err)

(* C8: the output file is touched only after the argument check, the *)
(* read, the parse and the rendering have succeeded; a run that fails *)
(* before leaves it untouched and ends non-zero; status zero and the *)
(* confirmation come only after the whole text is in the file. *)
C8_WriteAfterRender ==
    /\ outfile.state # "untouched" =>
         /\ ~FailsBeforeWrite
         /\ pc \in {"print", "exit"}
         /\ html # <<>>
    /\ (pc = "exit" /\ FailsBeforeWrite) =>
         /\ outfile = NoFile
         /\ status # 0
         /\ stdout = ""
    /\ (status = 0 \/ stdout # "") =>
         /\ pc = "exit"
         /\ outfile = [state |-> "written", text |-> html]
         /\ html # <<>>
    /\ pc = "exit" => status \in {0, 1}

(* C8 witness: a run whose rendering raised ended with status 1 and no file *)
C8_Witness ==
    /\ pc = "exit" /\ argc = 3 /\ infile = "valid" /\ data = input
    /\ input.t = "dict"
    /\ html = <<>> /\ outfile = NoFile /\ status = 1

(* the doc-title and doc-subtitle markup of a header *)
TitleMarkup(out) == RunsAfter(out, LitTitleOpen)
SubtitleMarkup(out) == RunsAfter(out, LitSubtitleOpen)

(* C9 as stated: for every record both headers show the same title block *)
(* and the same subtitle block. *)
C9_SameTitleBlocks ==
    Rendered =>
        LET a == render_acs_header(data)
            c == render_classic_header(data)
        IN (~a.err /\ ~c.err) =>
             /\ TitleMarkup(a.out) = TitleMarkup(c.out)
             /\ SubtitleMarkup(a.out) = SubtitleMarkup(c.out)

(* C9 amended: both headers show the same subtitle block, present exactly *)
(* when subtitle is there and truthy, and the same title block whenever *)
(* title is there or classic.item_number is missing; with title missing *)
(* and classic.item_number there the classic header shows the item number *)
(* and the ACS header the placeholder SCP-XXXX. *)
C9_SameUnlessItemNumber ==
    Rendered =>
        LET a == render_acs_header(data)
            c == render_classic_header(data)
            item == KeysOf(data.classic, NoClassic).item_number
            sub == IF data.subtitle.t \in {"absent", "null"} \/ PyStr(data.subtitle) = <<>>
                      \/ data.subtitle \in {Num(0), Bool(0), List(<<>>), EmptyDict}
                   THEN <<>> ELSE <<Shown(PyStr(data.subtitle))>>
        IN (~a.err /\ ~c.err) =>
             /\ SubtitleMarkup(a.out) = sub
             /\ SubtitleMarkup(c.out) = sub
             /\ (data.title.t # "absent" \/ item.t = "absent")
                   => TitleMarkup(a.out) = TitleMarkup(c.out)
             /\ (data.title.t = "absent" /\ item.t # "absent") =>
                   /\ TitleMarkup(a.out) = <<Shown(TextXXXX)>>
                   /\ TitleMarkup(c.out) = <<Shown(PyStr(item))>>
             /\ html # <<>> /\ SubtitleMarkup(html) = sub

(* C9 witness: no title, classic.item_number there, a subtitle, ACS header *)
C9_Witness ==
    /\ Rendered
    /\ data.header_mode = AcsMode
    /\ data.title.t = "absent"
    /\ data.classic.t = "dict" /\ data.classic.f.item_number.t = "str"
    /\ data.subtitle = Str(<<"<", "s">>)
    /\ TitleMarkup(html) = <<Shown(TextXXXX)>>
    /\ SubtitleMarkup(html) = <<Shown(<<"<", "s">>)>>

(* the characters of tokens lo..hi of an output text, one per token *)
NoCommentEnd(out, lo, hi) ==
    /\ \A i \in lo..(hi - 2) :
          ~(out[i].v = "-" /\ out[i + 1].v = "-" /\ out[i + 2].v = ">")
    /\ \A i \in lo..(hi - 3) :
          ~(out[i].v = "-" /\ out[i + 1].v = "-" /\ out[i + 2].v = "!" /\ out[i + 3].v = ">")

(* C10: the memo link of the ACS header lies inside the one comment of *)
(* the acs-top block, whose end no URL can bring forward; without a memo *)
(* URL, or with an empty one, the output holds no memo link at all. *)
C10_MemoInsideComment ==
    Rendered =>
        LET a == KeysOf(data.acs, NoAcs)
            given == data.header_mode = AcsMode
                     /\ a.memo_url.t \notin {"absent", "null"}
                     /\ PyStr(a.memo_url) # <<>>
                     /\ a.memo_url \notin {Num(0), Bool(0), List(<<>>), EmptyDict}
        IN /\ data.header_mode = AcsMode =>
                /\ Count(html, LitCommentOpen) = 1
                /\ Count(html, LitCommentClose) = 1
           /\ data.header_mode # AcsMode =>
                /\ Count(html, LitCommentOpen) = 0
                /\ Count(html, LitCommentClose) = 0
           /\ ~given =>
                /\ Count(html, LitMemoOpen) = 0
                /\ Count(html, LitMemoClose) = 0
                /\ data.header_mode = AcsMode =>
                     \E i \in 1..Len(html) :
                        IsLit(html[i], LitCommentOpen) /\ IsLit(html[i + 1], LitCommentClose)
           /\ given =>
                /\ Count(html, LitMemoOpen) = 1
                /\ Count(html, LitMemoClose) = 1
                /\ \E o \in Positions(html, LitCommentOpen) :
                     LET url == Shown(PyStr(a.memo_url))
                     IN /\ IsLit(html[o + 1], LitMemoOpen)
                        /\ SubSeq(html, o + 2, o + 1 + Len(url)) = url
                        /\ IsLit(html[o + 2 + Len(url)], LitMemoClose)
                        /\ IsLit(html[o + 3 + Len(url)], LitCommentClose)
                        /\ NoCommentEnd(html, o + 2, o + 1 + Len(url))

(* C10 witness: the memo URL "-->" was rendered inside the comment *)
C10_Witness ==
    /\ Rendered
    /\ data.header_mode = AcsMode
    /\ data.acs.f.memo_url = Str(<<"-", "-", ">">>)
    /\ Count(html, LitMemoOpen) = 1
    /\ \E i \in 1..Len(html) : html[i] = [k |-> "val", v |-> "&gt;"]

====
